---- MODULE Spec2Model ----
(***************************************************************************)
(* A model of AD.Mathematics (src/cpp): the lazily grown factorial cache   *)
(* (SpecialFunctions::Factorial), the GeneralizedLinearModel constructor   *)
(* and accessors, the Prepend matrix helper, the Deviance, InitialMean,    *)
(* Fit and Predict functions of the Gaussian and Poisson distributions,    *)
(* the Poisson probabilities and the Identity and Log link functions.      *)
(*                                                                         *)
(* Every exception the code throws is a std::out_of_range; the model keeps *)
(* the message, which is the only thing that tells the errors apart.       *)
(***************************************************************************)
EXTENDS Integers, Sequences, FiniteSets, TLC

VARIABLES
    cacheFactorial,     \* Factorial::_cacheFactorial of StaticFactorial
    cacheLogFactorial,  \* Factorial::_cacheLogFactorial of StaticFactorial
    call,               \* the last call made on StaticFactorial: [op, x]
    outcome,            \* what that call did: [thrown, value]
    args,               \* the arguments of the last GeneralizedLinearModel(...) call
    model,              \* the object that call built, or the exception it threw
    evaluation,         \* the last Evaluate(observation) call on that object
    input,              \* the vectors and the scale handed to a distribution
    result,             \* what the distribution's function did with them
    threads             \* the threads calling StaticFactorial: position and locals

factorialVars == <<cacheFactorial, cacheLogFactorial, call, outcome>>
modelVars == <<args, model, evaluation>>
distributionVars == <<input, result>>
vars == <<factorialVars, modelVars, distributionVars, threads>>

----------------------------------------------------------------------------
(* Bounds.  The source accepts arguments up to 170 because 170! is the     *)
(* largest factorial a double holds; the model scales that limit down to   *)
(* MaxArgument and the double's range down with it (DoubleMax), so that    *)
(* the arithmetic stays inside TLC's integers.                             *)
MaxArgument == 5

RECURSIVE Factorial(_)
\* n!, the mathematical value the cache is meant to hold at index n.
Factorial(n) == IF n = 0 THEN 1 ELSE n * Factorial(n - 1)

\* The largest finite double: MaxArgument! fits, (MaxArgument + 1)! does not.
DoubleMax == Factorial(MaxArgument + 1) - 1

\* +infinity, what a double product becomes once it exceeds DoubleMax.
Infinity == DoubleMax + 1

\* double * unsigned long, as in _cacheFactorial[i - 1] * i.
Multiply(a, i) ==
    IF a = Infinity \/ (i > 0 /\ a > DoubleMax \div i) THEN Infinity ELSE a * i

\* A double that is no whole number is kept in thousandths.
Thousandths(x) == 1000 * x

RECURSIVE Ln(_)
\* The natural logarithm of a whole number v >= 1, in thousandths: the sum of
\* the logarithms of its factors 2, 3, 5 and 7, and ln(v - 1) + 1 / (v - 1/2)
\* for a v with no such factor.
Ln(v) ==
    IF v <= 1 THEN 0
    ELSE IF v % 2 = 0 THEN 693 + Ln(v \div 2)
    ELSE IF v % 3 = 0 THEN 1099 + Ln(v \div 3)
    ELSE IF v % 5 = 0 THEN 1609 + Ln(v \div 5)
    ELSE IF v % 7 = 0 THEN 1946 + Ln(v \div 7)
    ELSE Ln(v - 1) + (2000 \div (2 * v - 1))

\* log(v) of <cmath>: log(+infinity) is +infinity and log(0.0) is -infinity.
Log(v) ==
    IF v = Infinity THEN Thousandths(Infinity)
    ELSE IF v = 0 THEN 0 - Thousandths(Infinity)
    ELSE Ln(v)

\* The literal 0.0 on the log scale: log(1.0) is exactly 0.0.
ZeroLog == Log(1)

\* The messages of the exceptions thrown by Factorial.
RangeClosed == "Argument range: [0, 170]."
RangeOpen == "Argument range: (0, 170]."
NoThrow == ""

\* C++ indexing v[i] (from 0) of a std::vector kept as a TLA+ sequence.
At(v, i) == v[i + 1]

----------------------------------------------------------------------------
(* Factorial::Get, Factorial.h:30-47.                                      *)

RECURSIVE PushFactorials(_, _, _)
\* for (auto i = start; i < start + x; i++) push_back(cache[i - 1] * i);
\* called with i = start and stop = start + x.
PushFactorials(cache, i, stop) ==
    IF i < stop
    THEN PushFactorials(Append(cache, Multiply(At(cache, i - 1), i)), i + 1, stop)
    ELSE cache

\* x is an unsigned int: x < 0 never holds, so only x > 170 throws.
Get(cache, x) ==
    IF x > MaxArgument
    THEN [cache |-> cache, thrown |-> RangeClosed, value |-> 0]
    ELSE IF x < Len(cache)
    THEN [cache |-> cache, thrown |-> NoThrow,
          value |-> IF x = 0 THEN 0 ELSE At(cache, x)]
    ELSE LET start == Len(cache)
             grown == PushFactorials(cache, start, start + x)
         IN  [cache |-> grown, thrown |-> NoThrow, value |-> At(grown, x)]

(* Factorial::GetLog, Factorial.h:58-75.                                   *)

RECURSIVE PushLogs(_, _, _, _, _)
\* for (i = start; i < start + x; i++) push_back(log(Get(x)));
\* every pass calls Get(x), which may grow the factorial cache.
PushLogs(logs, facts, i, stop, x) ==
    IF i < stop
    THEN LET g == Get(facts, x)
         IN  PushLogs(Append(logs, Log(g.value)), g.cache, i + 1, stop, x)
    ELSE [logs |-> logs, facts |-> facts]

\* GetLog with the range test of Get: x = 0 passes it and takes the cached
\* branch.
GetLogZeroAccepted(logs, facts, x) ==
    IF x > MaxArgument
    THEN [logs |-> logs, facts |-> facts, thrown |-> RangeOpen, value |-> ZeroLog]
    ELSE IF x < Len(logs)
    THEN [logs |-> logs, facts |-> facts, thrown |-> NoThrow,
          value |-> IF x = 0 THEN ZeroLog ELSE At(logs, x)]
    ELSE LET start == Len(logs)
             grown == PushLogs(logs, facts, start, start + x, x)
         IN  [logs |-> grown.logs, facts |-> grown.facts, thrown |-> NoThrow,
              value |-> At(grown.logs, x)]

GetLog(logs, facts, x) ==
    IF x <= 0 \/ x > MaxArgument
    THEN [logs |-> logs, facts |-> facts, thrown |-> RangeOpen, value |-> ZeroLog]
    ELSE IF x < Len(logs)
    THEN [logs |-> logs, facts |-> facts, thrown |-> NoThrow,
          value |-> IF x = 0 THEN ZeroLog ELSE At(logs, x)]
    ELSE LET start == Len(logs)
             grown == PushLogs(logs, facts, start, start + x, x)
         IN  [logs |-> grown.logs, facts |-> grown.facts, thrown |-> NoThrow,
              value |-> At(grown.logs, x)]

----------------------------------------------------------------------------
(* The sequential use of StaticFactorial.                                  *)

\* Factorial::Factorial(): both caches start with the entry for 0.
FactorialInit ==
    /\ cacheFactorial = <<1>>
    /\ cacheLogFactorial = <<ZeroLog>>
    /\ call = [op |-> "none", x |-> 0]
    /\ outcome = [thrown |-> NoThrow, value |-> 0]

\* The arguments a caller passes: the range and the first value outside it.
Arguments == 0 .. MaxArgument + 1

CallGet ==
    \E x \in Arguments :
        LET g == Get(cacheFactorial, x)
        IN  /\ cacheFactorial' = g.cache
            /\ call' = [op |-> "Get", x |-> x]
            /\ outcome' = [thrown |-> g.thrown, value |-> g.value]
            /\ UNCHANGED <<cacheLogFactorial, modelVars, distributionVars, threads>>

CallGetLog ==
    \E x \in Arguments :
        LET g == GetLog(cacheLogFactorial, cacheFactorial, x)
        IN  /\ cacheLogFactorial' = g.logs
            /\ cacheFactorial' = g.facts
            /\ call' = [op |-> "GetLog", x |-> x]
            /\ outcome' = [thrown |-> g.thrown, value |-> g.value]
            /\ UNCHANGED <<modelVars, distributionVars, threads>>

FactorialNext == CallGet \/ CallGetLog


----------------------------------------------------------------------------
(* Matrix/Prepend.h and RegressionModels/GeneralizedLinearModel.{h,cpp}.   *)

\* Bounds of the constructor's inputs.
MaxRows == 2
MaxColumns == 2

\* The doubles a design cell or an observation cell takes.
DesignValues == {2, 3}
\* The doubles a response takes and the importance weights.
ResponseValues == {7}
WeightValues == {1}
\* What a read past the end of a std::vector may find in memory.
Garbage == {0, 1}

\* All sequences over S with a length in lo..hi.
SeqsOf(S, lo, hi) == UNION {[1 .. n -> S] : n \in lo .. hi}

\* The message of the one exception the constructor throws.
DifferInLength == "Argument vectors differ in length."

\* row.insert(row.begin(), value)
InsertFront(row, value) == <<value>> \o row

\* Prepend::operator(): `for (std::vector<T> row : source)` binds row to a copy
\* of each element; the insert changes the copy, which dies at the end of the
\* pass, and source is returned as it came in.
Prepend(source, value) ==
    LET copies == [k \in 1 .. Len(source) |-> InsertFront(source[k], value)]
    IN  source

\* double / double with a zero divisor: 0.0 / 0 is NaN.  Other quotients are
\* kept as the fraction they are.
Divide(num, den) ==
    IF den = 0 /\ num = 0
    THEN [nan |-> TRUE, num |-> num, den |-> den]
    ELSE [nan |-> FALSE, num |-> num, den |-> den]

\* A model object no constructor call has built.
NoModel ==
    [exists |-> FALSE, thrown |-> NoThrow, distribution |-> "none",
     observationCount |-> 0, variableCount |-> 0, degreesOfFreedom |-> 0,
     sumSquaredErrors |-> 0, meanSquaredError |-> Divide(0, 1),
     designArray |-> <<>>, coefficients |-> <<>>]

\* GeneralizedLinearModel::GeneralizedLinearModel.  The counts are unsigned long
\* and their difference is read as a long: the signed difference.
Construct(design, response, weights, distribution, addConstant) ==
    IF Len(design) # Len(response) \/ Len(design) = 0
    THEN [NoModel EXCEPT !.thrown = DifferInLength]
    ELSE LET observationCount == Len(design[1])
             variableCount == Len(design)
             degreesOfFreedom == observationCount - variableCount
             sumSquaredErrors == 0
         IN  [exists |-> TRUE,
              thrown |-> NoThrow,
              distribution |->
                  IF distribution = "nullptr" THEN "Gaussian" ELSE distribution,
              observationCount |-> observationCount,
              variableCount |-> variableCount,
              degreesOfFreedom |-> degreesOfFreedom,
              sumSquaredErrors |-> sumSquaredErrors,
              meanSquaredError |-> Divide(sumSquaredErrors, degreesOfFreedom),
              designArray |-> IF addConstant THEN Prepend(design, 1) ELSE design,
              coefficients |-> <<>>]

\* The accessors of GeneralizedLinearModel.h.
ObservationCount(m) == m.observationCount
VariableCount(m) == m.variableCount
DegreesOfFreedom(m) == m.observationCount - m.variableCount
Coefficients(m) == m.coefficients
SumSquaredErrors(m) == m.sumSquaredErrors
MeanSquaredError(m) == Divide(SumSquaredErrors(m), DegreesOfFreedom(m))

RECURSIVE Accumulate(_, _, _, _)
\* for (i = 0; i < observation.size(); i++) result += _coefficients[i] * observation[i];
\* read[i] stands for what _coefficients[i] yields when i is past the end.
Accumulate(coefficients, observation, read, i) ==
    IF i > Len(observation)
    THEN 0
    ELSE (IF i <= Len(coefficients) THEN coefficients[i] ELSE read[i]) * observation[i]
         + Accumulate(coefficients, observation, read, i + 1)

\* GeneralizedLinearModel::Evaluate: no length is compared and nothing is
\* thrown; an index past the end of _coefficients is undefined behaviour, which
\* either faults or reads whatever lies there.
Evaluate(m, observation, read, faults) ==
    IF faults /\ Len(observation) > Len(m.coefficients)
    THEN [called |-> TRUE, observation |-> observation, thrown |-> NoThrow,
          fault |-> TRUE, value |-> 0]
    ELSE [called |-> TRUE, observation |-> observation, thrown |-> NoThrow,
          fault |-> FALSE, value |-> Accumulate(m.coefficients, observation, read, 1)]

NoEvaluation ==
    [called |-> FALSE, observation |-> <<>>, thrown |-> NoThrow,
     fault |-> FALSE, value |-> 0]

NoArgs ==
    [called |-> FALSE, design |-> <<>>, response |-> <<>>, weights |-> <<>>,
     distribution |-> "nullptr", addConstant |-> FALSE]

ModelInit ==
    /\ args = NoArgs
    /\ model = NoModel
    /\ evaluation = NoEvaluation

\* The designs a caller passes: rows of one length with at least one column,
\* and the design with no row at all.
Designs ==
    UNION {[1 .. r -> [1 .. c -> DesignValues]] :
               r \in 0 .. MaxRows, c \in 1 .. MaxColumns}

\* One object is followed from its construction on: the constructor runs once.
CallConstruct ==
    /\ ~args.called
    /\ \E design \in Designs,
          response \in SeqsOf(ResponseValues, 0, MaxRows + 1),
          weights \in SeqsOf(WeightValues, 0, MaxRows + 1),
          distribution \in {"nullptr", "Poisson"},
          addConstant \in BOOLEAN :
           /\ args' = [called |-> TRUE, design |-> design, response |-> response,
                       weights |-> weights, distribution |-> distribution,
                       addConstant |-> addConstant]
           /\ model' = Construct(design, response, weights, distribution, addConstant)
           /\ evaluation' = NoEvaluation
           /\ UNCHANGED <<factorialVars, distributionVars, threads>>

CallEvaluate ==
    /\ model.exists
    /\ \E observation \in SeqsOf(DesignValues, 0, MaxColumns),
          faults \in BOOLEAN :
        \E read \in [1 .. Len(observation) -> Garbage] :
            /\ evaluation' = Evaluate(model, observation, read, faults)
            /\ UNCHANGED <<args, model, factorialVars, distributionVars, threads>>

ModelNext == CallConstruct \/ CallEvaluate

----------------------------------------------------------------------------
(* Distributions/GaussianDistribution.cpp and PoissonDistribution.cpp.     *)
(* The inputs are small whole numbers; a double computed from them is kept *)
(* in thousandths, so that the logarithms have a value.                    *)

\* The longest vector handed to a distribution.
MaxLength == 2

ResponseReals == {0 - 1, 0, 1, 2}
MeanReals == {1, 2}
WeightReals == {0, 1, 2}
Scales == {0 - 1, 0, 1, 2}

\* log(std::numeric_limits<double>::epsilon()) = log(2^-52), in thousandths.
LnEpsilon == 0 - 36044

\* The message of GaussianDistribution::Deviance's second exception.
ScaleNotPositive == "Scale must be greater than zero."

\* The message of the exception InitialMean throws for an empty vector, the
\* only empty-input message of the library.
EmptyVector == "Argument vector is empty."

\* log(*r <= 0 ? epsilon : *r / *m), PoissonDistribution.cpp:37.
LogRatio(r, m) == IF r <= 0 THEN LnEpsilon ELSE Ln(r) - Ln(m)

RECURSIVE GaussianSum(_, _, _)
\* result += *r * pow(*r - *m, 2), over the response: the weights are not read.
GaussianSum(response, meanResponse, i) ==
    IF i > Len(response)
    THEN 0
    ELSE Thousandths(response[i] * (response[i] - meanResponse[i])
                                 * (response[i] - meanResponse[i]))
         + GaussianSum(response, meanResponse, i + 1)

\* GaussianDistribution::Deviance
GaussianDeviance(response, meanResponse, weights, scale) ==
    IF Len(response) # Len(meanResponse) \/ Len(response) # Len(weights)
    THEN [thrown |-> DifferInLength, value |-> Divide(0, 1), reads |-> 0]
    ELSE IF scale <= 0
    THEN [thrown |-> ScaleNotPositive, value |-> Divide(0, 1), reads |-> 0]
    ELSE [thrown |-> NoThrow,
          value |-> Divide(GaussianSum(response, meanResponse, 1), scale),
          reads |-> Len(response) + Len(meanResponse)]

RECURSIVE PoissonSum(_, _, _, _)
\* result += *w * (*r * d - *r - *m), over the weights.
PoissonSum(response, meanResponse, weights, i) ==
    IF i > Len(weights)
    THEN 0
    ELSE weights[i] * (response[i] * LogRatio(response[i], meanResponse[i])
                       - Thousandths(response[i]) - Thousandths(meanResponse[i]))
         + PoissonSum(response, meanResponse, weights, i + 1)

\* Deviance with the comparison of the weights' length left out; what the
\* loop then computes on vectors of different lengths is not defined.
PoissonDevianceWeightsUnchecked(response, meanResponse, weights, scale) ==
    IF Len(response) # Len(meanResponse)
    THEN [thrown |-> DifferInLength, value |-> Divide(0, 1), reads |-> 0]
    ELSE IF Len(response) # Len(weights)
    THEN [thrown |-> NoThrow, value |-> Divide(0, 1), reads |-> Len(weights)]
    ELSE [thrown |-> NoThrow,
          value |-> Divide(2 * PoissonSum(response, meanResponse, weights, 1), scale),
          reads |-> Len(weights) + Len(response) + Len(meanResponse)]

\* PoissonDistribution::Deviance: the scale is divided by, never tested.
PoissonDeviance(response, meanResponse, weights, scale) ==
    IF Len(response) # Len(meanResponse) \/ Len(response) # Len(weights)
    THEN [thrown |-> DifferInLength, value |-> Divide(0, 1), reads |-> 0]
    ELSE [thrown |-> NoThrow,
          value |-> Divide(2 * PoissonSum(response, meanResponse, weights, 1), scale),
          reads |-> Len(weights) + Len(response) + Len(meanResponse)]

----------------------------------------------------------------------------
(* ILinkFunction::LogLikelihood of the two link functions.  fitted is the  *)
(* caller's meanResponse.                                                  *)

\* log(M_PI) and log(M_PI * 2.0), in thousandths.
LnPi == Thousandths(1) + 145
LnTwoPi == Thousandths(1) + 838

RECURSIVE SumSquaredResiduals(_, _, _)
\* sumSquaredErrors += pow(*r - *f, 2), over the response.
SumSquaredResiduals(response, fitted, i) ==
    IF i > Len(response)
    THEN 0
    ELSE (response[i] - fitted[i]) * (response[i] - fitted[i])
         + SumSquaredResiduals(response, fitted, i + 1)

\* IdentityLinkFunction::LogLikelihood.  halfObs = 0.5 * size: with no element
\* the sum is log(0) + log(pi / 0), -inf + inf, a NaN; with a zero sum of
\* squares -halfObs * -inf is +inf, kept as the fraction 1 / 0.
IdentityLinkLogLikelihood(response, fitted, weights, scale) ==
    IF Len(response) # Len(fitted) \/ Len(response) # Len(weights)
    THEN [thrown |-> DifferInLength, value |-> Divide(0, 1), reads |-> 0]
    ELSE LET sumSquaredErrors == SumSquaredResiduals(response, fitted, 1)
             size == Len(response)
         IN  [thrown |-> NoThrow,
              value |->
                  IF size = 0 THEN Divide(0, 0)
                  ELSE IF sumSquaredErrors = 0 THEN Divide(1, 0)
                  ELSE Divide(0 - size * (Ln(sumSquaredErrors) + Thousandths(1)
                                          + LnPi - (Ln(size) - Ln(2))), 2),
              reads |-> Len(response) + Len(fitted)]

RECURSIVE LogLinkSum(_, _, _, _, _)
\* the sum of *w * (pow(*r - *f, 2) / scale + common), over the response.
LogLinkSum(response, fitted, weights, scale, i) ==
    IF i > Len(response)
    THEN 0
    ELSE weights[i] * (Thousandths((response[i] - fitted[i])
                                   * (response[i] - fitted[i])) \div scale
                       + LnTwoPi + Ln(scale))
         + LogLinkSum(response, fitted, weights, scale, i + 1)

\* LogLinkFunction::LogLikelihood.  common = log(2 pi scale) is -inf for scale 0
\* and a NaN for scale < 0, and so is every term: the result is a NaN unless
\* the loop runs no pass.
LogLinkLogLikelihood(response, fitted, weights, scale) ==
    IF Len(response) # Len(fitted) \/ Len(response) # Len(weights)
    THEN [thrown |-> DifferInLength, value |-> Divide(0, 1), reads |-> 0]
    ELSE [thrown |-> NoThrow,
          value |->
              IF Len(response) = 0 THEN Divide(0, 1)
              ELSE IF scale <= 0 THEN Divide(0, 0)
              ELSE Divide(0 - LogLinkSum(response, fitted, weights, scale, 1), 2),
          reads |-> Len(response) + Len(fitted) + Len(weights)]

\* No call made yet.  value is a returned double, vector a returned vector,
\* and reads counts the vector elements a call has read.
NoResult ==
    [op |-> "none", thrown |-> NoThrow, value |-> Divide(0, 1), reads |-> 0,
     vector |-> <<>>]

NoInput == [response |-> <<>>, meanResponse |-> <<>>, weights |-> <<>>, scale |-> 1]

\* The arguments a caller may hand to a distribution.
Inputs ==
    [response : SeqsOf(ResponseReals, 0, MaxLength),
     meanResponse : SeqsOf(MeanReals, 0, MaxLength),
     weights : SeqsOf(WeightReals, 0, MaxLength),
     scale : Scales]

CallGaussianDeviance ==
    /\ result.op = "none"
    /\ LET d == GaussianDeviance(input.response, input.meanResponse,
                                 input.weights, input.scale)
       IN  result' = [op |-> "GaussianDeviance", thrown |-> d.thrown,
                      value |-> d.value, reads |-> d.reads, vector |-> <<>>]
    /\ UNCHANGED <<input, factorialVars, modelVars, threads>>

CallPoissonDeviance ==
    /\ result.op = "none"
    /\ LET d == PoissonDeviance(input.response, input.meanResponse,
                                input.weights, input.scale)
       IN  result' = [op |-> "PoissonDeviance", thrown |-> d.thrown,
                      value |-> d.value, reads |-> d.reads, vector |-> <<>>]
    /\ UNCHANGED <<input, factorialVars, modelVars, threads>>

CallIdentityLinkLogLikelihood ==
    /\ result.op = "none"
    /\ LET l == IdentityLinkLogLikelihood(input.response, input.meanResponse,
                                          input.weights, input.scale)
       IN  result' = [op |-> "IdentityLinkLogLikelihood", thrown |-> l.thrown,
                      value |-> l.value, reads |-> l.reads, vector |-> <<>>]
    /\ UNCHANGED <<input, factorialVars, modelVars, threads>>

CallLogLinkLogLikelihood ==
    /\ result.op = "none"
    /\ LET l == LogLinkLogLikelihood(input.response, input.meanResponse,
                                     input.weights, input.scale)
       IN  result' = [op |-> "LogLinkLogLikelihood", thrown |-> l.thrown,
                      value |-> l.value, reads |-> l.reads, vector |-> <<>>]
    /\ UNCHANGED <<input, factorialVars, modelVars, threads>>

DistributionNext ==
    \/ CallGaussianDeviance
    \/ CallPoissonDeviance
    \/ CallIdentityLinkLogLikelihood
    \/ CallLogLinkLogLikelihood

----------------------------------------------------------------------------
(* The functions of one vector: Evaluate and Inverse of the Identity link, *)
(* Predict and Fit of a Gaussian distribution with its default link, and   *)
(* InitialMean of both distributions.  Elements are in thousandths.        *)

\* The caller's vector of whole doubles, in thousandths.
AsThousandths(v) == [k \in 1 .. Len(v) |-> Thousandths(v[k])]

\* 1.0 / y: 1.0 / 0.0 is +infinity.
Reciprocal(y) ==
    IF y = 0
    THEN Thousandths(Infinity)
    ELSE (Thousandths(1) * Thousandths(1)) \div y

\* IdentityLinkFunction::Evaluate: return std::vector<double>(x), a copy.
IdentityLinkEvaluate(x) == [k \in 1 .. Len(x) |-> x[k]]

\* IdentityLinkFunction::Inverse: the transform [](double y) { return 1.0 / y; }.
IdentityLinkInverse(x) == [k \in 1 .. Len(x) |-> Reciprocal(x[k])]

\* GaussianDistribution::Predict and Fit; _link is the IdentityLinkFunction
\* the constructor makes when it is handed none.
GaussianPredict(meanResponse) == IdentityLinkEvaluate(meanResponse)
GaussianFit(linearPrediction) == IdentityLinkInverse(linearPrediction)

RECURSIVE Accumulated(_, _)
\* std::accumulate(response.begin(), response.end(), 0.0), from index i on.
Accumulated(response, i) ==
    IF i > Len(response) THEN 0 ELSE response[i] + Accumulated(response, i + 1)

\* GaussianDistribution::InitialMean: 0.5 * (x + mean) over the response.
GaussianInitialMean(response) ==
    IF Len(response) = 0
    THEN [thrown |-> EmptyVector, vector |-> <<>>]
    ELSE LET mean == Accumulated(response, 1) \div Len(response)
         IN  [thrown |-> NoThrow,
              vector |-> [k \in 1 .. Len(response) |-> (response[k] + mean) \div 2]]

\* PoissonDistribution::InitialMean.  Its loop reads *r through
\* static_cast<std::vector<double>>(response).begin(): the iterator of a
\* temporary copy that is destroyed before the first pass.  read[k] is what
\* the k-th read of that freed memory yields.
PoissonInitialMean(response, read) ==
    IF Len(response) = 0
    THEN [thrown |-> EmptyVector, vector |-> <<>>]
    ELSE LET mean == Accumulated(response, 1) \div Len(response)
         IN  [thrown |-> NoThrow,
              vector |-> [k \in 1 .. Len(response) |-> (read[k] + mean) \div 2]]

\* What the reads of the freed copy may yield: the element the copy held, or
\* what the allocator or a later owner wrote there.
DanglingReads(response) ==
    {read \in [1 .. Len(response) -> {Thousandths(g) : g \in Garbage}
                                         \cup {response[k] : k \in 1 .. Len(response)}] :
        \A k \in 1 .. Len(response) :
            read[k] = response[k] \/ read[k] \in {Thousandths(g) : g \in Garbage}}

\* The vector a caller hands to a function of one vector.
VectorInputs ==
    [response : SeqsOf(ResponseReals, 0, MaxLength),
     meanResponse : {<<>>},
     weights : {<<>>},
     scale : {1}]

CallIdentityLinkEvaluate ==
    /\ result.op = "none"
    /\ result' = [NoResult EXCEPT !.op = "IdentityLinkEvaluate",
                      !.vector = IdentityLinkEvaluate(AsThousandths(input.response))]
    /\ UNCHANGED <<input, factorialVars, modelVars, threads>>

CallIdentityLinkInverse ==
    /\ result.op = "none"
    /\ result' = [NoResult EXCEPT !.op = "IdentityLinkInverse",
                      !.vector = IdentityLinkInverse(AsThousandths(input.response))]
    /\ UNCHANGED <<input, factorialVars, modelVars, threads>>

CallGaussianPredict ==
    /\ result.op = "none"
    /\ result' = [NoResult EXCEPT !.op = "GaussianPredict",
                      !.vector = GaussianPredict(AsThousandths(input.response))]
    /\ UNCHANGED <<input, factorialVars, modelVars, threads>>

\* Fit on the linear prediction a Predict call has returned.
CallGaussianFit ==
    /\ result.op = "GaussianPredict"
    /\ result' = [NoResult EXCEPT !.op = "GaussianFit",
                      !.vector = GaussianFit(result.vector)]
    /\ UNCHANGED <<input, factorialVars, modelVars, threads>>

CallGaussianInitialMean ==
    /\ result.op = "none"
    /\ LET m == GaussianInitialMean(AsThousandths(input.response))
       IN  result' = [NoResult EXCEPT !.op = "GaussianInitialMean",
                          !.thrown = m.thrown, !.vector = m.vector]
    /\ UNCHANGED <<input, factorialVars, modelVars, threads>>

CallPoissonInitialMean ==
    /\ result.op = "none"
    /\ \E read \in DanglingReads(AsThousandths(input.response)) :
        LET m == PoissonInitialMean(AsThousandths(input.response), read)
        IN  result' = [NoResult EXCEPT !.op = "PoissonInitialMean",
                           !.thrown = m.thrown, !.vector = m.vector]
    /\ UNCHANGED <<input, factorialVars, modelVars, threads>>

VectorNext ==
    \/ CallIdentityLinkEvaluate
    \/ CallIdentityLinkInverse
    \/ CallGaussianPredict
    \/ CallGaussianFit
    \/ CallGaussianInitialMean
    \/ CallPoissonInitialMean

----------------------------------------------------------------------------
(* PoissonDistribution::LogProbability and Probability, which read the     *)
(* log-factorial cache of StaticFactorial.  The argument x is a double,    *)
(* kept in thousandths.                                                    *)

\* The mean of PoissonDistribution(double mean = 1.0, ...).
PoissonMean == 1

\* static_cast<unsigned int>(x) of a double x >= 0: the fraction is dropped.
Truncate(x) == x \div Thousandths(1)

RECURSIVE Exp(_)
\* exp(t) of <cmath>, t and the result in thousandths: e and 1/e per whole
\* step, the series 1 - f + f^2/2 - f^3/6 for the fraction.
Exp(t) ==
    IF t > 0 THEN (2718 * Exp(t - 1000)) \div 1000
    ELSE IF t <= 0 - 1000 THEN (368 * Exp(t + 1000)) \div 1000
    ELSE LET f == 0 - t
         IN  1000 - f + (f * f) \div 2000 - (f * f * f) \div 6000000

\* x * log(_mean) - StaticFactorial.GetLog(static_cast<unsigned int>(x)) - _mean;
\* an exception of GetLog passes through.
LogProbability(logs, facts, x) ==
    IF x < 0 \/ x > Thousandths(MaxArgument)
    THEN [logs |-> logs, facts |-> facts, thrown |-> RangeClosed, value |-> 0]
    ELSE LET g == GetLog(logs, facts, Truncate(x))
         IN  IF g.thrown # NoThrow
             THEN [logs |-> g.logs, facts |-> g.facts, thrown |-> g.thrown, value |-> 0]
             ELSE [logs |-> g.logs, facts |-> g.facts, thrown |-> NoThrow,
                   value |-> (x * Log(PoissonMean)) \div Thousandths(1)
                             - g.value - Thousandths(PoissonMean)]

\* exp(LogProbability(x)), behind the same range test.
Probability(logs, facts, x) ==
    IF x < 0 \/ x > Thousandths(MaxArgument)
    THEN [logs |-> logs, facts |-> facts, thrown |-> RangeClosed, value |-> 0]
    ELSE LET l == LogProbability(logs, facts, x)
         IN  [l EXCEPT !.value = IF l.thrown = NoThrow THEN Exp(l.value) ELSE 0]

\* The doubles a caller passes: the whole numbers from -1 to one past the
\* limit and the halves between them.
PoissonArguments ==
    {Thousandths(n) : n \in (0 - 1) .. MaxArgument + 1}
        \cup {Thousandths(n) + 500 : n \in (0 - 1) .. MaxArgument}

CallLogProbability ==
    \E x \in PoissonArguments :
        LET l == LogProbability(cacheLogFactorial, cacheFactorial, x)
        IN  /\ cacheLogFactorial' = l.logs
            /\ cacheFactorial' = l.facts
            /\ call' = [op |-> "LogProbability", x |-> x]
            /\ outcome' = [thrown |-> l.thrown, value |-> l.value]
            /\ UNCHANGED <<modelVars, distributionVars, threads>>

CallProbability ==
    \E x \in PoissonArguments :
        LET l == Probability(cacheLogFactorial, cacheFactorial, x)
        IN  /\ cacheLogFactorial' = l.logs
            /\ cacheFactorial' = l.facts
            /\ call' = [op |-> "Probability", x |-> x]
            /\ outcome' = [thrown |-> l.thrown, value |-> l.value]
            /\ UNCHANGED <<modelVars, distributionVars, threads>>

\* A Poisson distribution shares StaticFactorial with every other caller.
PoissonNext == CallGet \/ CallGetLog \/ CallLogProbability \/ CallProbability

----------------------------------------------------------------------------
(* StaticFactorial called from several threads.  Factorial holds no lock:  *)
(* the statements of Get and GetLog interleave.  push_back is two steps,   *)
(* the read of the end of the vector and the store of the element and of   *)
(* the new end; a read past the end finds whatever lies in memory.         *)

NumThreads == 2
MaxThreadArgument == 2

Threads == 1 .. NumThreads
ThreadArguments == 0 .. MaxThreadArgument

Idle ==
    [pc |-> "idle", op |-> "none", x |-> 0, nested |-> FALSE,
     start |-> 0, i |-> 0, value |-> 0, finish |-> 0,
     lstart |-> 0, j |-> 0, got |-> 0, ret |-> 0, thrown |-> NoThrow]

ThreadsInit == threads = [t \in Threads |-> Idle]

\* The vector v after the store of a push_back that read its end as finish:
\* the element lands in slot finish and the end becomes finish + 1.  Slots the
\* vector had given up in between come back with what memory holds (fill).
Store(v, finish, element, fill) ==
    [k \in 1 .. finish + 1 |->
        IF k = finish + 1 THEN element
        ELSE IF k <= Len(v) THEN v[k]
        ELSE fill[k]]

\* The fills a store may find for the slots Len(v) + 1 .. finish.
Fills(v, finish, G) == [Len(v) + 1 .. finish -> G]

\* The values v[index] may yield: the element, or garbage past the end.
Reads(v, index, G) == IF index < Len(v) THEN {At(v, index)} ELSE G

\* A thread enters Get(x) or GetLog(x).
Begin(t) ==
    /\ threads[t].pc = "idle"
    /\ \E op \in {"Get", "GetLog"}, x \in ThreadArguments :
        threads' = [threads EXCEPT ![t] =
            [Idle EXCEPT !.op = op, !.x = x,
                         !.pc = IF op = "Get" THEN "get_check" ELSE "log_check"]]
    /\ UNCHANGED <<factorialVars, modelVars, distributionVars>>

\* Factorial.h:32-40: the range test, the cached branch, start = size().
GetCheck(t) ==
    LET th == threads[t] IN
    /\ th.pc = "get_check"
    /\ threads' = [threads EXCEPT ![t] =
         IF th.x > MaxArgument
         THEN [th EXCEPT !.pc = "done", !.thrown = RangeClosed]
         ELSE IF th.x < Len(cacheFactorial)
         THEN [th EXCEPT !.pc = IF th.nested THEN "log_push" ELSE "done",
                         !.got = IF th.x = 0 THEN 0 ELSE At(cacheFactorial, th.x),
                         !.ret = IF th.nested THEN th.ret
                                 ELSE IF th.x = 0 THEN 0 ELSE At(cacheFactorial, th.x)]
         ELSE [th EXCEPT !.pc = "get_loop", !.start = Len(cacheFactorial),
                         !.i = Len(cacheFactorial)]]
    /\ UNCHANGED <<factorialVars, modelVars, distributionVars>>

\* Factorial.h:42-43: the loop test and the product _cacheFactorial[i - 1] * i.
GetLoop(t) ==
    LET th == threads[t] IN
    /\ th.pc = "get_loop"
    /\ IF th.i < th.start + th.x
       THEN \E read \in Reads(cacheFactorial, th.i - 1, Garbage) :
                threads' = [threads EXCEPT ![t] =
                    [th EXCEPT !.pc = "get_push", !.value = Multiply(read, th.i)]]
       ELSE threads' = [threads EXCEPT ![t] = [th EXCEPT !.pc = "get_return"]]
    /\ UNCHANGED <<factorialVars, modelVars, distributionVars>>

\* push_back, first half: the end of _cacheFactorial is read.
GetPush(t) ==
    LET th == threads[t] IN
    /\ th.pc = "get_push"
    /\ threads' = [threads EXCEPT ![t] =
           [th EXCEPT !.pc = "get_store", !.finish = Len(cacheFactorial)]]
    /\ UNCHANGED <<factorialVars, modelVars, distributionVars>>

\* push_back, second half: the element and the new end are stored; i++.
GetStore(t) ==
    LET th == threads[t] IN
    /\ th.pc = "get_store"
    /\ \E fill \in Fills(cacheFactorial, th.finish, Garbage) :
           cacheFactorial' = Store(cacheFactorial, th.finish, th.value, fill)
    /\ threads' = [threads EXCEPT ![t] =
           [th EXCEPT !.pc = "get_loop", !.i = th.i + 1, !.value = 0, !.finish = 0]]
    /\ UNCHANGED <<cacheLogFactorial, call, outcome, modelVars, distributionVars>>

\* Factorial.h:46: return _cacheFactorial[x].
GetReturn(t) ==
    LET th == threads[t] IN
    /\ th.pc = "get_return"
    /\ \E read \in Reads(cacheFactorial, th.x, Garbage) :
        threads' = [threads EXCEPT ![t] =
            [th EXCEPT !.pc = IF th.nested THEN "log_push" ELSE "done",
                       !.got = read,
                       !.ret = IF th.nested THEN th.ret ELSE read,
                       !.start = 0, !.i = 0]]
    /\ UNCHANGED <<factorialVars, modelVars, distributionVars>>

\* Factorial.h:60-68: the range test, the cached branch, start = size().
LogCheck(t) ==
    LET th == threads[t] IN
    /\ th.pc = "log_check"
    /\ threads' = [threads EXCEPT ![t] =
         IF th.x <= 0 \/ th.x > MaxArgument
         THEN [th EXCEPT !.pc = "done", !.thrown = RangeOpen, !.ret = ZeroLog]
         ELSE IF th.x < Len(cacheLogFactorial)
         THEN [th EXCEPT !.pc = "done", !.ret = At(cacheLogFactorial, th.x)]
         ELSE [th EXCEPT !.pc = "log_loop", !.lstart = Len(cacheLogFactorial),
                         !.j = Len(cacheLogFactorial)]]
    /\ UNCHANGED <<factorialVars, modelVars, distributionVars>>

\* Factorial.h:70-71: the loop test and the call of Get(x).
LogLoop(t) ==
    LET th == threads[t] IN
    /\ th.pc = "log_loop"
    /\ threads' = [threads EXCEPT ![t] =
         IF th.j < th.lstart + th.x
         THEN [th EXCEPT !.pc = "get_check", !.nested = TRUE]
         ELSE [th EXCEPT !.pc = "log_return", !.nested = FALSE]]
    /\ UNCHANGED <<factorialVars, modelVars, distributionVars>>

\* push_back(log(Get(x))), first half: the end of _cacheLogFactorial is read.
LogPush(t) ==
    LET th == threads[t] IN
    /\ th.pc = "log_push"
    /\ threads' = [threads EXCEPT ![t] =
           [th EXCEPT !.pc = "log_store", !.finish = Len(cacheLogFactorial)]]
    /\ UNCHANGED <<factorialVars, modelVars, distributionVars>>

\* push_back(log(Get(x))), second half; i++.
LogStore(t) ==
    LET th == threads[t] IN
    /\ th.pc = "log_store"
    /\ \E fill \in Fills(cacheLogFactorial, th.finish, Garbage) :
           cacheLogFactorial' = Store(cacheLogFactorial, th.finish, Log(th.got), fill)
    /\ threads' = [threads EXCEPT ![t] =
           [th EXCEPT !.pc = "log_loop", !.j = th.j + 1, !.got = 0, !.finish = 0]]
    /\ UNCHANGED <<cacheFactorial, call, outcome, modelVars, distributionVars>>

\* Factorial.h:74: return _cacheLogFactorial[x].
LogReturn(t) ==
    LET th == threads[t] IN
    /\ th.pc = "log_return"
    /\ \E read \in Reads(cacheLogFactorial, th.x, Garbage) :
        threads' = [threads EXCEPT ![t] =
            [th EXCEPT !.pc = "done", !.ret = read, !.lstart = 0, !.j = 0]]
    /\ UNCHANGED <<factorialVars, modelVars, distributionVars>>

\* The call has returned or thrown; the thread may call again.
Finish(t) ==
    /\ threads[t].pc = "done"
    /\ threads' = [threads EXCEPT ![t] = Idle]
    /\ UNCHANGED <<factorialVars, modelVars, distributionVars>>

ThreadsNext ==
    \E t \in Threads :
        \/ Begin(t)
        \/ Finish(t)
        \/ GetCheck(t)
        \/ GetLoop(t)
        \/ GetPush(t)
        \/ GetStore(t)
        \/ GetReturn(t)
        \/ LogCheck(t)
        \/ LogLoop(t)
        \/ LogPush(t)
        \/ LogStore(t)
        \/ LogReturn(t)

----------------------------------------------------------------------------
(* The specifications.                                                     *)

Init ==
    /\ FactorialInit
    /\ ModelInit
    /\ input = NoInput
    /\ result = NoResult
    /\ ThreadsInit

\* A distribution's functions are pure: their arguments are drawn at the start.
DistributionInit ==
    /\ FactorialInit
    /\ ModelInit
    /\ input \in Inputs
    /\ result = NoResult
    /\ ThreadsInit

SpecFactorial == Init /\ [][FactorialNext]_vars

SpecModel == Init /\ [][ModelNext]_vars

SpecDistribution == DistributionInit /\ [][DistributionNext]_vars

\* The functions of one vector: the vector is drawn at the start.
VectorInit ==
    /\ FactorialInit
    /\ ModelInit
    /\ input \in VectorInputs
    /\ result = NoResult
    /\ ThreadsInit

SpecVector == VectorInit /\ [][VectorNext]_vars

SpecThreads == Init /\ [][ThreadsNext]_vars

SpecPoisson == Init /\ [][PoissonNext]_vars

----------------------------------------------------------------------------
\* C2: after any sequence of in-range Get and GetLog calls, Get(n) returns n!
\* for every n in the range, Get(0) = 1.0 included.
C2_GetReturnsFactorial ==
    (call.op = "Get" /\ call.x <= MaxArgument) =>
        (outcome.thrown = NoThrow /\ outcome.value = Factorial(call.x))

\* C3: after any sequence of in-range calls, GetLog(n) returns ln(n!) for every
\* n in (0, limit], whatever was requested earlier.
C3_GetLogReturnsLogFactorial ==
    (call.op = "GetLog" /\ call.x >= 1 /\ call.x <= MaxArgument) =>
        (outcome.thrown = NoThrow /\ outcome.value = Log(Factorial(call.x)))

----------------------------------------------------------------------------
\* C1: constructing a model fails with the dimension-mismatch error whenever
\* the design's row count, the response length and the weights length are not
\* all equal, a weights vector of another length included.
C1_MismatchedLengthsRejected ==
    (args.called /\ ~(Len(args.design) = Len(args.response)
                      /\ Len(args.response) = Len(args.weights))) =>
        (~model.exists /\ model.thrown = DifferInLength)

\* C5: with addConstant = true the design used for fitting has 1.0 prepended
\* to every row: one element longer, first element 1.0, then the caller's row.
C5_ConstantPrepended ==
    (model.exists /\ args.addConstant) =>
        /\ Len(model.designArray) = Len(args.design)
        /\ \A k \in 1 .. Len(args.design) :
               model.designArray[k] = <<1>> \o args.design[k]

\* C6: after a successful construction ObservationCount is the design's row
\* count, VariableCount the number of columns per row, and DegreesOfFreedom
\* their difference, for non-square designs as well as square ones.
C6_CountsFollowDesign ==
    model.exists =>
        /\ ObservationCount(model) = Len(args.design)
        /\ ObservationCount(model) = Len(args.response)
        /\ VariableCount(model) = Len(args.design[1])
        /\ DegreesOfFreedom(model) = ObservationCount(model) - VariableCount(model)

\* C7: construction fails when DegreesOfFreedom is <= 0: no model object has
\* a zero or negative DegreesOfFreedom, and MeanSquaredError never divides by
\* a non-positive degrees-of-freedom value.
C7_DegreesOfFreedomPositive ==
    model.exists =>
        /\ DegreesOfFreedom(model) > 0
        /\ model.meanSquaredError.den > 0
        /\ MeanSquaredError(model).den > 0

RECURSIVE DotProduct(_, _, _)
\* The dot product of two sequences of one length, from index i on.
DotProduct(a, b, i) ==
    IF i > Len(a) THEN 0 ELSE a[i] * b[i] + DotProduct(a, b, i + 1)

\* C8: Evaluate(observation) returns the dot product of the coefficients and
\* the observation, and fails with the dimension-mismatch error whenever their
\* lengths differ, reading no coefficient outside the coefficient vector.
C8_EvaluateChecksLength ==
    evaluation.called =>
        IF Len(evaluation.observation) # Len(Coefficients(model))
        THEN evaluation.thrown = DifferInLength /\ ~evaluation.fault
        ELSE /\ evaluation.thrown = NoThrow
             /\ ~evaluation.fault
             /\ evaluation.value =
                    DotProduct(Coefficients(model), evaluation.observation, 1)

\* C9: after a successful construction Coefficients has length VariableCount,
\* or VariableCount + 1 with addConstant = true, and is never empty.
C9_CoefficientsLength ==
    model.exists =>
        /\ Len(Coefficients(model)) =
               VariableCount(model) + (IF args.addConstant THEN 1 ELSE 0)
        /\ Len(Coefficients(model)) > 0

\* C10: Deviance(response, meanResponse, weights, scale) fails with the domain
\* error whenever scale <= 0, for the Gaussian and for the Poisson distribution,
\* and returns no number then.
C10_DevianceRejectsScale ==
    (result.op \in {"GaussianDeviance", "PoissonDeviance"}
        /\ input.scale <= 0
        /\ Len(input.response) = Len(input.meanResponse)
        /\ Len(input.response) = Len(input.weights)) =>
        result.thrown = ScaleNotPositive

\* What the factorial cache is to hold at index n: n!, or +infinity past the
\* range of a double.
CacheEntry(n) == IF n > MaxArgument THEN Infinity ELSE Factorial(n)

\* Every entry of the factorial cache is the factorial of its index.
CacheExact ==
    \A n \in 0 .. Len(cacheFactorial) - 1 : At(cacheFactorial, n) = CacheEntry(n)

\* C4: the cache is safe under concurrent read/extend: in any interleaving of
\* calls from two or more threads every call returns what it returns when the
\* calls run one after the other (Get(n) = n! for n >= 1), and the cache never
\* holds a wrong, missing or duplicated entry at an index.
C4_ConcurrentCallsSafe ==
    /\ CacheExact
    /\ \A t \in Threads :
           (threads[t].pc = "done" /\ threads[t].op = "Get" /\ threads[t].x >= 1
               /\ threads[t].thrown = NoThrow) =>
               threads[t].ret = Factorial(threads[t].x)

\* The same two conditions for calls made one after the other: they hold there,
\* so that C4 fails by the interleaving alone.
SequentialCallsSafe ==
    /\ CacheExact
    /\ (call.op = "Get" /\ call.x >= 1 /\ call.x <= MaxArgument) =>
           (outcome.thrown = NoThrow /\ outcome.value = Factorial(call.x))

----------------------------------------------------------------------------
\* A Deviance call the contract calls valid: vectors of one length, no
\* negative weight, scale > 0.
ValidDevianceCall ==
    /\ result.op \in {"GaussianDeviance", "PoissonDeviance"}
    /\ Len(input.response) = Len(input.meanResponse)
    /\ Len(input.response) = Len(input.weights)
    /\ \A k \in 1 .. Len(input.weights) : input.weights[k] >= 0
    /\ input.scale > 0

\* C11: Deviance(response, response, weights, scale) is 0 for the Gaussian
\* distribution and 0 up to a thousandth for the Poisson distribution, for
\* every response with positive entries, non-negative weights and scale > 0.
C11_DevianceOfResponseIsZero ==
    (ValidDevianceCall
        /\ input.meanResponse = input.response
        /\ \A k \in 1 .. Len(input.response) : input.response[k] > 0) =>
        /\ result.thrown = NoThrow
        /\ ~result.value.nan
        /\ result.op = "GaussianDeviance" => result.value.num = 0
        /\ result.op = "PoissonDeviance" =>
               (result.value.num >= 0 - result.value.den
                   /\ result.value.num <= result.value.den)

\* C12: Deviance is non-negative for all valid inputs (vectors of one length,
\* non-negative weights, scale > 0), for the Gaussian and for the Poisson
\* distribution, negative responses included for the Gaussian.
C12_DevianceNonNegative ==
    (ValidDevianceCall
        /\ (result.op = "PoissonDeviance" =>
               \A k \in 1 .. Len(input.response) : input.response[k] >= 0)) =>
        /\ result.thrown = NoThrow
        /\ ~result.value.nan
        /\ result.value.num >= 0

----------------------------------------------------------------------------
\* C13: Poisson Probability(x) and LogProbability(x) return a value for every
\* x in the closed range [0, limit], x = 0 included, and fail with the domain
\* error (a range message) for every x outside it.
C13_ProbabilityDomain ==
    call.op \in {"LogProbability", "Probability"} =>
        IF call.x >= 0 /\ call.x <= Thousandths(MaxArgument)
        THEN outcome.thrown = NoThrow
        ELSE outcome.thrown \in {RangeClosed, RangeOpen}

\* C14: constructing a model on a design with zero rows fails with the
\* empty-input error, whatever the lengths of response and weights, and no
\* model state is computed from the empty design.
C14_EmptyDesignRejected ==
    (args.called /\ Len(args.design) = 0) =>
        model = [NoModel EXCEPT !.thrown = EmptyVector]

----------------------------------------------------------------------------
\* C15: Deviance (Gaussian, Poisson) and LogLikelihood (Identity, Log) throw
\* the dimension-mismatch error whenever response, meanResponse/fitted and
\* weights are not all of one length, whatever the scale, and have read no
\* element of any vector by then.
C15_MismatchFailsBeforeAnyRead ==
    (result.op \in {"GaussianDeviance", "PoissonDeviance",
                    "IdentityLinkLogLikelihood", "LogLinkLogLikelihood"}
        /\ ~(Len(input.response) = Len(input.meanResponse)
             /\ Len(input.response) = Len(input.weights))) =>
        (result.thrown = DifferInLength /\ result.reads = 0)

\* A Poisson Deviance call whose weights alone are of another length, with a
\* scale the Gaussian variant would reject, has thrown the mismatch error.
C15_MismatchWitness ==
    /\ result.op = "PoissonDeviance"
    /\ Len(input.response) = MaxLength
    /\ Len(input.meanResponse) = MaxLength
    /\ Len(input.weights) = MaxLength - 1
    /\ input.scale <= 0
    /\ result.thrown = DifferInLength
    /\ result.reads = 0

----------------------------------------------------------------------------
\* C16: with the Identity link Evaluate and Inverse are identity transforms:
\* Inverse(x) = x and Evaluate(x) = x element by element, and for a Gaussian
\* distribution with its default link Predict(mean) = mean and
\* Fit(Predict(mean)) = mean, for every input vector.
C16_IdentityLinkIsIdentity ==
    result.op \in {"IdentityLinkEvaluate", "IdentityLinkInverse",
                   "GaussianPredict", "GaussianFit"} =>
        result.vector = AsThousandths(input.response)

\* C18: InitialMean(response) throws the empty-input error for an empty
\* response; otherwise, for the Gaussian and for the Poisson distribution, it
\* returns a vector of the length of response whose i-th element is
\* 0.5 * (response[i] + mean(response)), to the rounding of the thousandths.
C18_InitialMeanIsMidpoint ==
    result.op \in {"GaussianInitialMean", "PoissonInitialMean"} =>
        LET response == AsThousandths(input.response)
            size == Len(response)
            sum == Accumulated(response, 1)
        IN  IF size = 0
            THEN result.thrown = EmptyVector
            ELSE /\ result.thrown = NoThrow
                 /\ Len(result.vector) = size
                 /\ \A k \in 1 .. size :
                        LET twice == 2 * size * result.vector[k]
                                         - (size * response[k] + sum)
                        IN  twice <= 4 * size /\ 0 - twice <= 4 * size

----------------------------------------------------------------------------
\* C17: Get(n) throws the range error for every n outside [0, limit] and
\* GetLog(n) for every n outside (0, limit], n = 0 included, and a call that
\* throws leaves both caches as they were.
C17_OutOfRangeFailsCachesKept ==
    [][/\ (call'.op = "Get" /\ call'.x > MaxArgument) =>
              outcome'.thrown = RangeClosed
       /\ (call'.op = "GetLog" /\ (call'.x <= 0 \/ call'.x > MaxArgument)) =>
              outcome'.thrown = RangeOpen
       /\ outcome'.thrown # NoThrow =>
              /\ cacheFactorial' = cacheFactorial
              /\ cacheLogFactorial' = cacheLogFactorial]_vars

\* GetLog(0) has thrown on caches that earlier calls had grown.
C17_FailingCallWitness ==
    /\ call.op = "GetLog"
    /\ call.x = 0
    /\ outcome.thrown = RangeOpen
    /\ Len(cacheFactorial) > 1
    /\ Len(cacheLogFactorial) > 1

\* Every entry of the log-factorial cache is the logarithm of the factorial
\* of its index.
LogCacheExact ==
    \A n \in 0 .. Len(cacheLogFactorial) - 1 :
        At(cacheLogFactorial, n) = Log(Factorial(n))

\* C19: in every state reached by in-range Get and GetLog calls each cache has
\* at most limit + 1 entries, a call with argument n grows a cache only as far
\* as index n, and every entry at index i holds i!, respectively ln(i!).
C19_CachesBoundedAndExact ==
    [][(call'.x <= MaxArgument) =>
           /\ Len(cacheFactorial') <= MaxArgument + 1
           /\ Len(cacheLogFactorial') <= MaxArgument + 1
           /\ Len(cacheFactorial') > Len(cacheFactorial) =>
                  Len(cacheFactorial') <= call'.x + 1
           /\ Len(cacheLogFactorial') > Len(cacheLogFactorial) =>
                  Len(cacheLogFactorial') <= call'.x + 1
           /\ CacheExact'
           /\ LogCacheExact']_vars

====
